---------------------------- MODULE Spec2Model ----------------------------
(***************************************************************************)
(* Model of the wave mesh of glmark2's "buffer" scene                     *)
(* (src/src/scene-buffer.cpp): the grid callback wave_grid_conf, the      *)
(* WaveMesh constructor and WaveMesh::update.                             *)
(*                                                                         *)
(* Numbers.  The doubles of the program are modelled by integers:         *)
(*   - positions along the length axis are counted in units of one grid   *)
(*     step times 1/res (length_ = nlength_ * res units);                 *)
(*   - elapsed time is counted in ticks, one tick being the time the wave *)
(*     needs to travel one position unit, so that wave_velocity_ * elapsed*)
(*     is `elapsed' units;                                                *)
(*   - displacements are counted in thousandths; the sine is tabulated at *)
(*     the twelve phases k * 30 degrees, so wave_period_ divides 12 units.*)
(* Indices (size_t) are naturals; vertices[v] of the program is           *)
(* vertices[v + 1] here and float f of a vertex is element f + 1.         *)
(***************************************************************************)
EXTENDS Integers, Sequences, FiniteSets, TLC

(* Bounds of the model *)
MaxNLength == 4
MaxNWidth == 2
MaxRes == 1
MaxDutyInv == 2
MaxElapsed == 5
MaxX == 12
MaxK == 2
MaxSceneElapsed == 1
MaxFrames == 2
MaxSetups == 3

(* The wave periods (in position units) the sine table can serve *)
WavePeriods == {4, 6, 12}

(* The option values <<columns, rows, wave period, full periods per wave
   period>> a scene is set up with *)
SceneOptions == {<<1, 1, 4, 1>>, <<2, 1, 4, 2>>}

(* The value of `elapsed' before the first call of update() *)
NoTime == -1

VARIABLES
    nlength_,           \* WaveMesh::nlength_
    nwidth_,            \* WaveMesh::nwidth_
    length_,            \* WaveMesh::length_ (position units)
    width_,             \* WaveMesh::width_
    wave_period_,       \* WaveMesh::wave_period_ (position units)
    wave_full_period_,  \* WaveMesh::wave_full_period_ (position units)
    displacement_,      \* WaveMesh::displacement_, a function on 0..nlength_
    vertices,           \* mesh_.vertices(), a sequence of 12-float vertices
    index_ranges,       \* `ranges' of update() after its first loop (line 128)
    ranges,             \* `ranges' of update() as passed to mesh_.update_vbo
    elapsed,            \* argument of the last update() call, NoTime if none
    prev_elapsed,       \* argument of the update() call before the last one
    old_displacement,   \* displacement_ at entry of the last update() call
    old_vertices,       \* vertices at entry of the last update() call
    accessed,           \* the indices the last update() call used: on the
                        \* vertex store, on displacement_, and the values of
                        \* n at which ranges.back().second == n - 1 was tested
    wave_eval,          \* the last evaluation of wave_func at x and at
                        \* x + k * wave_full_period_, with the remainders r
    scene_pc,           \* where the caller of the SceneBuffer stands
    priv_wave,          \* priv_->wave: 0 (null) or the id of a WaveMesh
    mesh_deletes,       \* for each WaveMesh created (ids 1, 2, ...), how many
                        \* times it was deleted
    mRunning,           \* Scene::mRunning
    mDuration,          \* Scene::mDuration (ticks)
    mCurrentFrame,      \* Scene::mCurrentFrame
    mapbuffer,          \* GLExtensions::MapBuffer and UnmapBuffer are both set
    setup_result,       \* outcome of the last setup(), with the number of
                        \* meshes and mRunning at its entry
    nsetups,            \* number of setup() calls so far
    wave_fault          \* a call used priv_->wave while it did not point to
                        \* a live WaveMesh

vars == <<nlength_, nwidth_, length_, width_, wave_period_, wave_full_period_,
          displacement_, vertices, index_ranges, ranges, elapsed, prev_elapsed,
          old_displacement, old_vertices, accessed, wave_eval,
          scene_pc, priv_wave, mesh_deletes, mRunning, mDuration,
          mCurrentFrame, mapbuffer, setup_result, nsetups, wave_fault>>

(* The variables of the scene around the mesh *)
scene_vars == <<scene_pc, priv_wave, mesh_deletes, mRunning, mDuration,
                mCurrentFrame, mapbuffer, setup_result, nsetups, wave_fault>>

-----------------------------------------------------------------------------
(* Grid construction *)

(* A corner position: LibMatrix::vec3 *)
vec3(x, y, z) == <<x, y, z>>

(* Mesh::set_attrib(pos, v) on a vertex of format {3,3,3,3}: floats
   3*pos .. 3*pos+2 of the vertex receive v. *)
set_attrib(vertex, pos, v) ==
    [f \in 1..12 |-> IF (f - 1) \div 3 = pos THEN v[((f - 1) % 3) + 1]
                     ELSE vertex[f]]

(* Mesh::next_vertex(): a new vertex of 12 floats, all 0 *)
next_vertex == [f \in 1..12 |-> 0]

(* Variant of grid_conf_order: the first triangle emitted as {ll, ul, ur} *)
grid_conf_order_swapped(ul, ll, ur, lr) == <<ll, ul, ur, ur, ll, lr>>

(* The corner order of wave_grid_conf: t[] = {ll, ur, ul, ur, ll, lr} *)
grid_conf_order(ul, ll, ur, lr) == <<ll, ur, ul, ur, ll, lr>>

(* wave_grid_conf: the six vertices appended to the mesh for one quad *)
wave_grid_conf(mesh, ul, ll, ur, lr) ==
    LET t == grid_conf_order(ul, ll, ur, lr)
        vtx(i) ==
            set_attrib(
              set_attrib(
                set_attrib(
                  set_attrib(next_vertex, 0, t[i + 1]),
                  1, t[3 * (i \div 3) + 1]),
                2, t[3 * (i \div 3) + 1 + 1]),
              3, t[3 * (i \div 3) + 2 + 1])
    IN mesh \o [i \in 1..6 |-> vtx(i - 1)]

(* Mesh::make_grid(n_x, n_y, width, height, spacing = 0, conf_func): calls
   conf_func once per quad, i (length) outermost and j (width) innermost,
   with the corners a = ul, b = ll, c = ur, d = lr at z = 0.  The quads are
   numbered q = i * n_y + j. *)
RECURSIVE make_grid(_, _, _, _, _, _)
make_grid(mesh, q, n_x, n_y, width, height) ==
    IF q >= n_x * n_y THEN mesh
    ELSE LET i == q \div n_y
             j == q % n_y
             side_width == width \div n_x
             side_height == height \div n_y
             a == vec3(i * side_width, j * side_height, 0)
             b == vec3(a[1], a[2] + side_height, 0)
             c == vec3(a[1] + side_width, a[2], 0)
             d == vec3(a[1] + side_width, a[2] + side_height, 0)
         IN make_grid(wave_grid_conf(mesh, a, b, c, d), q + 1,
                      n_x, n_y, width, height)

(* WaveMesh::create_mesh *)
create_mesh(nlength, nwidth, length, width) ==
    make_grid(<<>>, 0, nlength, nwidth, length, width)

(* Variant of init_displacement: the array starts as the wave at time 0 *)
init_displacement_time0(nlength) ==
    [n \in 0..nlength |->
        LET r == ((n * length_) \div nlength_) % wave_full_period_
        IN IF r > wave_period_ THEN 0
           ELSE <<0, 100, 173, 200, 173, 100, 0,
                  -100, -173, -200, -173, -100>>[(((r * 12) \div wave_period_) % 12) + 1]]

(* displacement_(nlength + 1) of the constructor's initialiser list:
   nlength + 1 doubles, value-initialised *)
init_displacement(nlength) == [n \in 0..nlength |-> 0]

-----------------------------------------------------------------------------
(* The wave *)

(* 0.1 * length, in position units per tick (see the note on numbers) *)
wave_velocity_ == 1

(* 1000 * 0.2 * sin(k * 30 degrees), k = 0..11 *)
SineTable == <<0, 100, 173, 200, 173, 100, 0, -100, -173, -200, -173, -100>>

(* 1000 * 0.2 * std::sin(wave_k_ * r), wave_k_ = 2 pi / wave_period_ *)
sin02(r) == SineTable[(((r * 12) \div wave_period_) % 12) + 1]

(* fmod(x, y), y > 0: the remainder has the sign of x *)
fmod(x, y) == IF x >= 0 THEN x % y ELSE 0 - ((0 - x) % y)

(* Lines 202-204 of wave_func: the remainder r used by the duty cycle test *)
wave_remainder(x) ==
    LET r0 == fmod(x, wave_full_period_)
    IN IF r0 < 0 THEN r0 + wave_full_period_ ELSE r0

(* Variant of wave_func: a negative remainder is not brought back into
   the period *)
wave_func_no_normalise(x) ==
    LET r == IF x >= 0 THEN x % wave_full_period_
             ELSE 0 - ((0 - x) % wave_full_period_)
    IN IF r > wave_period_ THEN 0
       ELSE <<0, 100, 173, 200, 173, 100, 0,
              -100, -173, -200, -173, -100>>[(((r * 12) \div wave_period_) % 12) + 1]

(* WaveMesh::wave_func *)
wave_func(x) ==
    LET r0 == fmod(x, wave_full_period_)
        r == IF r0 < 0 THEN r0 + wave_full_period_ ELSE r0
    IN IF r > wave_period_ THEN 0 ELSE sin02(r)

(* WaveMesh::displacement *)
displacement(n, t) ==
    LET x == (n * length_) \div nlength_
    IN wave_func(x - wave_velocity_ * t)

(* WaveMesh::vertex_length_index *)
vertex_length_index(v) == v \div (6 * nwidth_) + (v % 2)

-----------------------------------------------------------------------------
(* WaveMesh::update *)

(* Variant of changed: d is compared with displacement_[0] *)
changed_vs_first(n, t) == displacement(n, t) # displacement_[0]

(* The test of line 116: d != displacement_[n] *)
changed(n, t) == displacement(n, t) # displacement_[n]

(* Variant of find_ranges: the last range is never extended (the test
   compares its end with n instead of n - 1) *)
RECURSIVE find_ranges_no_merge(_, _, _)
find_ranges_no_merge(n, rngs, t) ==
    IF n > nlength_ THEN rngs
    ELSE LET last == Len(rngs)
             next ==
               IF displacement(n, t) # displacement_[n]
               THEN IF last > 0 /\ rngs[last][2] = n
                    THEN [rngs EXCEPT ![last][2] = n]
                    ELSE Append(rngs, <<IF n > 0 THEN n - 1 ELSE 0, n>>)
               ELSE rngs
         IN find_ranges_no_merge(n + 1, next, t)

(* Variant of find_ranges: a new range starts two indices back *)
RECURSIVE find_ranges_backstop2(_, _, _)
find_ranges_backstop2(n, rngs, t) ==
    IF n > nlength_ THEN rngs
    ELSE LET last == Len(rngs)
             next ==
               IF displacement(n, t) # displacement_[n]
               THEN IF last > 0 /\ rngs[last][2] = n - 1
                    THEN [rngs EXCEPT ![last][2] = n]
                    ELSE Append(rngs, <<IF n > 1 THEN n - 2 ELSE 0, n>>)
               ELSE rngs
         IN find_ranges_backstop2(n + 1, next, t)

(* The first loop, lines 113-128, from index n on with the list rngs *)
RECURSIVE find_ranges(_, _, _)
find_ranges(n, rngs, t) ==
    IF n > nlength_ THEN rngs
    ELSE LET last == Len(rngs)
             next ==
               IF changed(n, t)
               THEN IF last > 0 /\ rngs[last][2] = n - 1
                    THEN [rngs EXCEPT ![last][2] = n]
                    ELSE Append(rngs, <<IF n > 0 THEN n - 1 ELSE 0, n>>)
               ELSE rngs
         IN find_ranges(n + 1, next, t)

(* Variant of new_displacement: the store is done only where a range is
   opened or nothing changed, not where the last range is extended *)
new_displacement_not_on_merge(t) ==
    [n \in 0..nlength_ |->
        IF n > 0 /\ displacement(n, t) # displacement_[n]
                 /\ displacement(n - 1, t) # displacement_[n - 1]
        THEN displacement_[n]
        ELSE displacement(n, t)]

(* The store of line 127, done for every n *)
new_displacement(t) == [n \in 0..nlength_ |-> displacement(n, t)]

(* Variant of vstart: the parity term is added for even indices *)
vstart_parity_swapped(r) == r[1] * nwidth_ * 6 + ((r[1] + 1) % 2)

(* Variant of vstart: the number of quads per row is left out *)
vstart_no_width(r) == r[1] * 6 + (r[1] % 2)

(* Line 136: first vertex of a length index range *)
vstart(r) == r[1] * nwidth_ * 6 + (r[1] % 2)

(* Variant of vend: the following quad row is added for the last line too *)
vend_always_next(r) == (r[2] + 1) * nwidth_ * 6

(* Line 141: first vertex not included in the range *)
vend(r) == (r[2] + (IF r[2] < nlength_ THEN 1 ELSE 0)) * nwidth_ * 6

(* Variant of rewrite_vertex: the own position is written at float 1 (y) *)
rewrite_vertex_y(vertex, v, disp) ==
    LET vt == 3 * (v \div 3)
    IN [vertex EXCEPT ![0 * 3 + 1 + 1] = disp[v \div (6 * nwidth_) + (v % 2)],
                      ![1 * 3 + 2 + 1] = disp[vt \div (6 * nwidth_) + (vt % 2)],
                      ![2 * 3 + 2 + 1] = disp[(vt + 1) \div (6 * nwidth_) + ((vt + 1) % 2)],
                      ![3 * 3 + 2 + 1] = disp[(vt + 2) \div (6 * nwidth_) + ((vt + 2) % 2)]]

(* Lines 144-148: the four z floats of vertex v, from the array disp *)
rewrite_vertex(vertex, v, disp) ==
    LET vt == 3 * (v \div 3)
    IN [vertex EXCEPT ![0 * 3 + 2 + 1] = disp[vertex_length_index(v)],
                      ![1 * 3 + 2 + 1] = disp[vertex_length_index(vt)],
                      ![2 * 3 + 2 + 1] = disp[vertex_length_index(vt + 1)],
                      ![3 * 3 + 2 + 1] = disp[vertex_length_index(vt + 2)]]

(* Lines 143-149 for one range *)
rewrite_range(verts, r, disp) ==
    [k \in 1..Len(verts) |->
        IF vstart(r) <= k - 1 /\ k - 1 < vend(r)
        THEN rewrite_vertex(verts[k], k - 1, disp)
        ELSE verts[k]]

(* The second loop, lines 131-154, from range i on: the vertex store *)
RECURSIVE rewrite_ranges(_, _, _, _)
rewrite_ranges(verts, rngs, i, disp) ==
    IF i > Len(rngs) THEN verts
    ELSE rewrite_ranges(rewrite_range(verts, rngs[i], disp), rngs, i + 1, disp)

(* Variant of vertex_range: the end is stored as vend, not vend - 1 *)
vertex_range_open(r) ==
    <<r[1] * nwidth_ * 6 + (r[1] % 2),
      (r[2] + (IF r[2] < nlength_ THEN 1 ELSE 0)) * nwidth_ * 6>>

(* Lines 152-153: the pair becomes the actual vertex range *)
vertex_range(r) == <<vstart(r), vend(r) - 1>>

(* The second loop: the list passed on to mesh_.update_vbo *)
vertex_ranges(rngs) == [i \in 1..Len(rngs) |-> vertex_range(rngs[i])]

(* The values of n, from n on with the list rngs, at which the first loop
   evaluates ranges.back().second == n - 1 (line 117): the right operand of
   &&, evaluated when d != displacement_[n] and ranges.size() > 0 *)
RECURSIVE back_tests(_, _, _, _)
back_tests(n, rngs, t, acc) ==
    IF n > nlength_ THEN acc
    ELSE LET last == Len(rngs)
             tested == changed(n, t) /\ last > 0
             next ==
               IF changed(n, t)
               THEN IF last > 0 /\ rngs[last][2] = n - 1
                    THEN [rngs EXCEPT ![last][2] = n]
                    ELSE Append(rngs, <<IF n > 0 THEN n - 1 ELSE 0, n>>)
               ELSE rngs
         IN back_tests(n + 1, next, t, IF tested THEN acc \cup {n} ELSE acc)

(* The indices v of vertices[v] in lines 145-148, for the list rngs *)
vertex_accesses(rngs) ==
    UNION {vstart(rngs[i])..(vend(rngs[i]) - 1) : i \in 1..Len(rngs)}

(* The indices used on displacement_: n in lines 116 and 127, and the four
   vertex_length_index values of lines 145-148 *)
displacement_accesses(rngs) ==
    (0..nlength_) \cup
    UNION {{vertex_length_index(v),
            vertex_length_index(3 * (v \div 3)),
            vertex_length_index(3 * (v \div 3) + 1),
            vertex_length_index(3 * (v \div 3) + 2)} : v \in vertex_accesses(rngs)}

-----------------------------------------------------------------------------
(* The state machine *)

(* No evaluation of wave_func recorded *)
NoEval == [done |-> FALSE, x |-> 0, k |-> 0, fx |-> 0, fxk |-> 0, r |-> 0, rk |-> 0]

(* No setup() call made *)
NoSetup == [outcome |-> "none", meshes_before |-> 0, running_before |-> FALSE]

(* The state after WaveMesh::WaveMesh *)
Init ==
    /\ nlength_ \in 1..MaxNLength
    /\ nwidth_ \in 1..MaxNWidth
    /\ length_ \in {nlength_ * res : res \in 1..MaxRes}
    /\ width_ = nwidth_
    /\ wave_period_ \in WavePeriods
    /\ wave_full_period_ \in {wave_period_ * m : m \in 1..MaxDutyInv}
    /\ displacement_ = init_displacement(nlength_)
    /\ vertices = create_mesh(nlength_, nwidth_, length_, width_)
    /\ index_ranges = <<>>
    /\ ranges = <<>>
    /\ elapsed = NoTime
    /\ prev_elapsed = NoTime
    /\ old_displacement = displacement_
    /\ old_vertices = vertices
    /\ accessed = [vertex |-> {}, disp |-> {}, back_test |-> {}]
    /\ wave_eval = NoEval
    /\ scene_pc = "mesh_only"
    /\ priv_wave = 1
    /\ mesh_deletes = <<0>>
    /\ mRunning = TRUE
    /\ mDuration = 0
    /\ mCurrentFrame = 0
    /\ mapbuffer = TRUE
    /\ setup_result = NoSetup
    /\ nsetups = 0
    /\ wave_fault = FALSE

(* WaveMesh::update(t), on the mesh alone *)
update(t) ==
    LET rngs == find_ranges(0, <<>>, t)
        disp == new_displacement(t)
    IN /\ index_ranges' = rngs
       /\ displacement_' = disp
       /\ vertices' = rewrite_ranges(vertices, rngs, 1, disp)
       /\ ranges' = vertex_ranges(rngs)
       /\ elapsed' = t
       /\ prev_elapsed' = elapsed
       /\ old_displacement' = displacement_
       /\ old_vertices' = vertices
       /\ accessed' = [vertex |-> vertex_accesses(rngs),
                       disp |-> displacement_accesses(rngs),
                       back_test |-> back_tests(0, <<>>, t, {})]
       /\ UNCHANGED <<nlength_, nwidth_, length_, width_, wave_period_,
                      wave_full_period_, wave_eval>>

(* WaveMesh::update(t) called on a constructed mesh *)
Update(t) == update(t) /\ UNCHANGED scene_vars

Next == \E t \in 0..MaxElapsed : Update(t)

Spec == Init /\ [][Next]_vars

-----------------------------------------------------------------------------
(* The wave function on its own: wave_func applied to x and to
   x + k * wave_full_period_, for the wave parameters of a constructed mesh *)

WaveInit == Init /\ nlength_ = 1 /\ nwidth_ = 1

EvalWave(x, k) ==
    /\ wave_eval' = [done |-> TRUE, x |-> x, k |-> k,
                     fx |-> wave_func(x),
                     fxk |-> wave_func(x + k * wave_full_period_),
                     r |-> wave_remainder(x),
                     rk |-> wave_remainder(x + k * wave_full_period_)]
    /\ UNCHANGED <<nlength_, nwidth_, length_, width_, wave_period_,
                   wave_full_period_, displacement_, vertices, index_ranges,
                   ranges, elapsed, prev_elapsed, old_displacement,
                   old_vertices, accessed>>
    /\ UNCHANGED scene_vars

WaveNext == \E x \in (0 - MaxX)..MaxX : \E k \in (0 - MaxK)..MaxK : EvalWave(x, k)

WaveSpec == WaveInit /\ [][WaveNext]_vars

-----------------------------------------------------------------------------
(* SceneBuffer: the life cycle of the scene that owns the mesh.  The caller
   (the benchmark loop) calls setup(), then update() and draw() while the
   scene is running, then teardown(), any number of times, and at last
   destroys the scene.  The mesh variables describe the WaveMesh priv_->wave
   points to.  Time stamps are inputs: update() receives its elapsed_time
   as t. *)

mesh_vars == <<nlength_, nwidth_, length_, width_, wave_period_,
               wave_full_period_, displacement_, vertices, index_ranges,
               ranges, elapsed, prev_elapsed, old_displacement, old_vertices,
               accessed>>

(* The number of WaveMesh objects created so far *)
NumCreated == Len(mesh_deletes)

(* The WaveMesh objects allocated and not deleted *)
LiveMeshes == {id \in 1..NumCreated : mesh_deletes[id] = 0}

(* priv_->wave points to a live WaveMesh *)
WaveIsLive == priv_wave \in LiveMeshes

(* The state after SceneBuffer::SceneBuffer and load(): priv_ = new
   SceneBufferPrivate() value-initialises wave to null, no WaveMesh exists,
   load() clears mRunning. *)
SceneInit ==
    /\ scene_pc = "loaded"
    /\ priv_wave = 0
    /\ mesh_deletes = <<>>
    /\ mRunning = FALSE
    /\ mDuration = 0
    /\ mCurrentFrame = 0
    /\ mapbuffer \in BOOLEAN
    /\ setup_result = NoSetup
    /\ nsetups = 0
    /\ wave_fault = FALSE
    /\ nlength_ = 0
    /\ nwidth_ = 0
    /\ length_ = 0
    /\ width_ = 0
    /\ wave_period_ = 0
    /\ wave_full_period_ = 0
    /\ displacement_ = <<>>
    /\ vertices = <<>>
    /\ index_ranges = <<>>
    /\ ranges = <<>>
    /\ elapsed = NoTime
    /\ prev_elapsed = NoTime
    /\ old_displacement = <<>>
    /\ old_vertices = <<>>
    /\ accessed = [vertex |-> {}, disp |-> {}, back_test |-> {}]
    /\ wave_eval = NoEval

(* new WaveMesh(...): the mesh variables after the constructor *)
new_WaveMesh(nlength, nwidth, length, width, period, full_period) ==
    /\ nlength_' = nlength
    /\ nwidth_' = nwidth
    /\ length_' = length
    /\ width_' = width
    /\ wave_period_' = period
    /\ wave_full_period_' = full_period
    /\ displacement_' = init_displacement(nlength)
    /\ vertices' = create_mesh(nlength, nwidth, length, width)
    /\ index_ranges' = <<>>
    /\ ranges' = <<>>
    /\ elapsed' = NoTime
    /\ prev_elapsed' = NoTime
    /\ old_displacement' = init_displacement(nlength)
    /\ old_vertices' = create_mesh(nlength, nwidth, length, width)
    /\ accessed' = [vertex |-> {}, disp |-> {}, back_test |-> {}]

(* SceneBuffer::setup(), update-method "map" (use_map) or "subdata", with
   the options columns, rows, the wave derived from update-fraction and
   update-dispersion, and the duration Scene::setup() reads *)
setup(use_map, columns, rows, period, duty_inv, duration) ==
    /\ scene_pc \in {"loaded", "torn_down"}
    /\ nsetups < MaxSetups
    /\ nsetups' = nsetups + 1
    /\ scene_pc' = "set_up"
    /\ mDuration' = duration
    /\ IF use_map /\ ~mapbuffer
       THEN /\ setup_result' = [outcome |-> "error",
                                 meshes_before |-> NumCreated,
                                 running_before |-> mRunning]
            /\ UNCHANGED <<priv_wave, mesh_deletes, mRunning, mCurrentFrame>>
            /\ UNCHANGED mesh_vars
       ELSE /\ setup_result' = [outcome |-> "ok",
                                 meshes_before |-> NumCreated,
                                 running_before |-> mRunning]
            /\ new_WaveMesh(columns, rows, columns, rows, period,
                            period * duty_inv)
            /\ mesh_deletes' = Append(mesh_deletes, 0)
            /\ priv_wave' = NumCreated + 1
            /\ mCurrentFrame' = 0
            /\ mRunning' = TRUE
    /\ UNCHANGED <<mapbuffer, wave_fault, wave_eval>>

Setup ==
    \E use_map \in BOOLEAN : \E o \in SceneOptions :
    \E duration \in 1..MaxSceneElapsed :
        setup(use_map, o[1], o[2], o[3], o[4], duration)

(* SceneBuffer::update() with elapsed_time = t *)
SceneUpdate(t) ==
    /\ scene_pc = "set_up"
    /\ mRunning
    /\ mCurrentFrame < MaxFrames
    /\ mRunning' = IF t >= mDuration THEN FALSE ELSE mRunning
    /\ mCurrentFrame' = mCurrentFrame + 1
    /\ IF WaveIsLive
       THEN update(t) /\ wave_fault' = wave_fault
       ELSE UNCHANGED mesh_vars /\ wave_fault' = TRUE /\ UNCHANGED wave_eval
    /\ UNCHANGED <<scene_pc, priv_wave, mesh_deletes, mDuration, mapbuffer,
                   setup_result, nsetups>>

(* SceneBuffer::draw(): priv_->wave->program() and ->mesh().render_vbo() *)
SceneDraw ==
    /\ scene_pc = "set_up"
    /\ mRunning
    /\ wave_fault' = (wave_fault \/ ~WaveIsLive)
    /\ UNCHANGED mesh_vars
    /\ UNCHANGED <<scene_pc, priv_wave, mesh_deletes, mRunning, mDuration,
                   mCurrentFrame, mapbuffer, setup_result, nsetups, wave_eval>>

(* SceneBuffer::teardown(): priv_->wave->reset() with no test of wave.  On
   a live WaveMesh the mesh stays allocated.  On a null wave the call is
   undefined: the process stops, or goes on. *)
SceneTeardown ==
    /\ scene_pc = "set_up"
    /\ IF WaveIsLive
       THEN scene_pc' = "torn_down" /\ wave_fault' = wave_fault
       ELSE scene_pc' \in {"crashed", "torn_down"} /\ wave_fault' = TRUE
    /\ UNCHANGED mesh_vars
    /\ UNCHANGED <<priv_wave, mesh_deletes, mRunning, mDuration,
                   mCurrentFrame, mapbuffer, setup_result, nsetups, wave_eval>>

(* SceneBuffer::~SceneBuffer: delete priv_, whose destructor deletes wave
   (a null wave is deleted without effect) *)
SceneDestroy ==
    /\ scene_pc \in {"loaded", "torn_down"}
    /\ scene_pc' = "destroyed"
    /\ mesh_deletes' = IF priv_wave \in 1..NumCreated
                       THEN [mesh_deletes EXCEPT ![priv_wave] = @ + 1]
                       ELSE mesh_deletes
    /\ UNCHANGED mesh_vars
    /\ UNCHANGED <<priv_wave, mRunning, mDuration, mCurrentFrame, mapbuffer,
                   setup_result, nsetups, wave_fault, wave_eval>>

SceneNext ==
    \/ Setup
    \/ \E t \in 0..MaxSceneElapsed : SceneUpdate(t)
    \/ SceneDraw
    \/ SceneTeardown
    \/ SceneDestroy

SceneSpec == SceneInit /\ [][SceneNext]_vars

-----------------------------------------------------------------------------
(* Vocabulary of the properties *)

(* update() has been called at least once *)
Called == elapsed # NoTime

(* The number of vertices the grid holds *)
NumVertices == nlength_ * nwidth_ * 6

(* The length indices whose displacement the last update() found changed *)
ChangedSet == {n \in 0..nlength_ : displacement_[n] # old_displacement[n]}

(* Vertex v lies in one of the vertex ranges rewritten by the last update() *)
InVertexRanges(v) ==
    \E i \in 1..Len(ranges) : ranges[i][1] <= v /\ v <= ranges[i][2]

(* The triangle of vertex v has a corner on length line n *)
TriangleTouches(v, n) ==
    \E k \in 0..2 : vertex_length_index(3 * (v \div 3) + k) = n

(* Length index n lies in the i-th length index range of the last update() *)
InIndexRange(n, i) == index_ranges[i][1] <= n /\ n <= index_ranges[i][2]

-----------------------------------------------------------------------------
(* C1: after any update(), every vertex of every triangle with a corner on a
   changed length line lies inside one of the vertex ranges rewritten by
   that call. *)
C1_ChangedLineRefreshed ==
    Called =>
      \A n \in ChangedSet : \A v \in 0..(NumVertices - 1) :
        TriangleTouches(v, n) => InVertexRanges(v)

(* C2 as stated: every vertex of a reported vertex range has its own length
   index inside [lo, hi] of the originating length index range. *)
C2_OwnIndexWithinRange ==
    \A i \in 1..Len(ranges) : \A v \in ranges[i][1]..ranges[i][2] :
        /\ index_ranges[i][1] <= vertex_length_index(v)
        /\ vertex_length_index(v) <= index_ranges[i][2]

(* C2 amended: every vertex of a reported vertex range has its own length
   index in [lo, hi + 1] when hi < nlength, and in [lo, hi] when
   hi = nlength. *)
C2_OwnIndexWithinExtendedRange ==
    \A i \in 1..Len(ranges) : \A v \in ranges[i][1]..ranges[i][2] :
        /\ index_ranges[i][1] <= vertex_length_index(v)
        /\ vertex_length_index(v) <=
             index_ranges[i][2] + (IF index_ranges[i][2] < nlength_ THEN 1 ELSE 0)

(* C2 witness: a reported range that ends before the last line holds a
   vertex on line hi + 1, and another reported range ends on the last line. *)
C2_Witness ==
    /\ \E i \in 1..Len(ranges) :
         /\ index_ranges[i][2] < nlength_
         /\ \E v \in ranges[i][1]..ranges[i][2] :
              vertex_length_index(v) = index_ranges[i][2] + 1
    /\ \E i \in 1..Len(ranges) : index_ranges[i][2] = nlength_

(* C3 as stated: consecutive length index ranges [a,b], [c,d] have
   c > b + 1. *)
C3_RangesNonAdjacent ==
    \A i \in 1..(Len(index_ranges) - 1) :
        index_ranges[i + 1][1] > index_ranges[i][2] + 1

(* C3 amended: the length index range list is ascending and pairwise
   disjoint, consecutive ranges [a,b], [c,d] having a <= b < c <= d; the
   ranges may be adjacent (c = b + 1). *)
C3_RangesAscendingDisjoint ==
    /\ \A i \in 1..Len(index_ranges) : index_ranges[i][1] <= index_ranges[i][2]
    /\ \A i \in 1..(Len(index_ranges) - 1) :
         index_ranges[i + 1][1] > index_ranges[i][2]

(* C3 witness: a list with two adjacent ranges *)
C3_Witness ==
    \E i \in 1..(Len(index_ranges) - 1) :
        index_ranges[i + 1][1] = index_ranges[i][2] + 1

(* C4: the length index ranges contain every changed index, and any other
   index they contain is the first index of its range, immediately before a
   changed index. *)
C4_RangesCoverChangedPlusBackstop ==
    Called =>
      /\ \A n \in ChangedSet : \E i \in 1..Len(index_ranges) : InIndexRange(n, i)
      /\ \A i \in 1..Len(index_ranges) :
           \A n \in index_ranges[i][1]..index_ranges[i][2] :
             n \notin ChangedSet =>
               /\ n = index_ranges[i][1]
               /\ n + 1 <= index_ranges[i][2]
               /\ n + 1 \in ChangedSet

(* C4 witness: one range has an unchanged backstop index, another starts at
   the changed index 0. *)
C4_Witness ==
    /\ Called
    /\ Len(index_ranges) >= 2
    /\ index_ranges[1] = <<0, 0>>
    /\ 0 \in ChangedSet
    /\ \E i \in 1..Len(index_ranges) : index_ranges[i][1] \notin ChangedSet

(* C5: an update() that finds no changed index builds an empty range list,
   rewrites no vertex and forwards no range; a second update(t) with the
   same t builds an empty range list. *)
C5_NoChangeNoRanges ==
    /\ (Called /\ ChangedSet = {}) =>
         /\ index_ranges = <<>>
         /\ ranges = <<>>
         /\ vertices = old_vertices
    /\ (Called /\ prev_elapsed = elapsed) => index_ranges = <<>>

(* C5 witness: update(t) was called twice in a row on a mesh that is not
   flat, and the second call left the vertex store as it was. *)
C5_Witness ==
    /\ Called
    /\ prev_elapsed = elapsed
    /\ index_ranges = <<>>
    /\ ranges = <<>>
    /\ vertices = old_vertices
    /\ \E n \in 0..nlength_ : displacement_[n] # 0

(* The x coordinate of length line n, as the grid builder lays it out *)
LineX(n) == n * (length_ \div nlength_)

(* The y coordinate of width line m, as the grid builder lays it out *)
RowY(m) == m * (width_ \div nwidth_)

(* The z floats of a vertex: float 2 of each of its four slots *)
ZFloats == {0 * 3 + 2, 1 * 3 + 2, 2 * 3 + 2, 3 * 3 + 2}

(* C6 as stated: right after construction the stored displacement and the
   vertex z values are those of elapsed time 0, so that a first update(0)
   builds an empty range list. *)
C6_ConstructedAtTimeZero ==
    /\ ~Called =>
         /\ \A n \in 0..nlength_ : displacement_[n] = displacement(n, 0)
         /\ \A k \in 1..Len(vertices) :
              vertices[k][0 * 3 + 2 + 1] =
                displacement(vertex_length_index(k - 1), 0)
    /\ (elapsed = 0 /\ prev_elapsed = NoTime) => index_ranges = <<>>

(* C6 amended: right after construction the stored displacement and every
   z float of the vertex store are 0; a first update(0) finds changed
   exactly the indices n with displacement(n, 0) # 0, and its range list is
   empty only when there is no such index. *)
C6_ConstructedFlat ==
    /\ ~Called =>
         /\ \A n \in 0..nlength_ : displacement_[n] = 0
         /\ \A k \in 1..Len(vertices) : \A f \in ZFloats : vertices[k][f + 1] = 0
    /\ (elapsed = 0 /\ prev_elapsed = NoTime) =>
         /\ ChangedSet = {n \in 0..nlength_ : displacement(n, 0) # 0}
         /\ (index_ranges = <<>>) <=> (\A n \in 0..nlength_ : displacement(n, 0) = 0)

(* C6 witness: the first call is update(0) and it finds changed indices *)
C6_Witness ==
    /\ elapsed = 0
    /\ prev_elapsed = NoTime
    /\ ChangedSet # {}
    /\ index_ranges # <<>>
    /\ \A n \in 0..nlength_ : old_displacement[n] = 0

(* C7: when every length index changes in one update(), the range list is
   the single range [0, nlength] and the vertex range forwarded is the whole
   buffer [0, nlength*nwidth*6 - 1]. *)
C7_AllChangedOneFullRange ==
    (Called /\ ChangedSet = 0..nlength_) =>
      /\ Len(index_ranges) = 1
      /\ index_ranges[1] = <<0, nlength_>>
      /\ ranges = << <<0, nlength_ * nwidth_ * 6 - 1>> >>

(* C7 witness: an update() of a grid of several lines changed every index *)
C7_Witness ==
    /\ Called
    /\ nlength_ >= 2
    /\ ChangedSet = 0..nlength_
    /\ Len(ranges) = 1

(* C8: after update(t) the stored displacement of every index n is
   displacement(n, t), whatever was stored before. *)
C8_DisplacementIsCacheOfLastTime ==
    Called => \A n \in 0..nlength_ : displacement_[n] = displacement(n, elapsed)

(* C8 witness: after at least two updates, the last one found some indices
   changed (two of them consecutive) and some unchanged. *)
C8_Witness ==
    /\ prev_elapsed # NoTime
    /\ prev_elapsed # elapsed
    /\ \E n \in 0..nlength_ : n \notin ChangedSet /\ displacement_[n] # 0
    /\ \E n \in 1..nlength_ : n \in ChangedSet /\ n - 1 \in ChangedSet

(* C9: update() changes only z floats (offsets 2, 5, 8, 11) of vertices
   inside the vertex ranges of that call, and never the number of
   vertices. *)
C9_OnlyZInsideRangesChanges ==
    /\ Len(vertices) = NumVertices
    /\ Called =>
         /\ Len(vertices) = Len(old_vertices)
         /\ \A k \in 1..Len(vertices) : \A f \in 0..11 :
              vertices[k][f + 1] # old_vertices[k][f + 1] =>
                f \in ZFloats /\ InVertexRanges(k - 1)

(* C9 witness: an update() changed z floats of some vertex and left a
   vertex outside its ranges alone. *)
C9_Witness ==
    /\ Called
    /\ \E k \in 1..Len(vertices) : \E f \in ZFloats :
         vertices[k][f + 1] # old_vertices[k][f + 1]
    /\ \E k \in 1..Len(vertices) : ~InVertexRanges(k - 1)

(* C10: the grid holds 6 vertices per quad, emitted in the order
   {ll, ur, ul, ur, ll, lr}, quads by length index outermost; the own
   position of vertex v lies on length line v/(6*nwidth) + (v mod 2), which
   is in 0..nlength, and nlength is attained. *)
C10_EmissionOrderAndOwnLine ==
    /\ Len(vertices) = nlength_ * nwidth_ * 6
    /\ \A q \in 0..(nlength_ * nwidth_ - 1) :
         LET i == q \div nwidth_
             j == q % nwidth_
             ul == <<LineX(i), RowY(j)>>
             ll == <<LineX(i), RowY(j + 1)>>
             ur == <<LineX(i + 1), RowY(j)>>
             lr == <<LineX(i + 1), RowY(j + 1)>>
         IN [k \in 1..6 |-> <<vertices[6 * q + k][1], vertices[6 * q + k][2]>>]
              = <<ll, ur, ul, ur, ll, lr>>
    /\ \A v \in 0..(Len(vertices) - 1) :
         /\ vertices[v + 1][1] = LineX(vertex_length_index(v))
         /\ vertex_length_index(v) \in 0..nlength_
         /\ vertex_length_index(v) =
              v \div (6 * nwidth_) + (IF v % 2 = 0 THEN 0 ELSE 1)
    /\ \E v \in 0..(Len(vertices) - 1) : vertex_length_index(v) = nlength_

(* C10 witness: a freshly built grid of several lines and several rows *)
C10_Witness ==
    /\ ~Called
    /\ nlength_ >= 2
    /\ nwidth_ >= 2
    /\ Len(vertices) = nlength_ * nwidth_ * 6
    /\ vertices[Len(vertices)][1] = LineX(nlength_)

(* The scenario of C11: nlength = 4, nwidth = 1, length = 4.0, wavelength
   fraction 1.0 and duty cycle 1.0 (wave_period_ = wave_full_period_ = 4
   units), the stored displacement was that of elapsed = 0, and the last call
   was update(2.5): the wave travels 0.4 per second, so one tick is 2.5 s. *)
C11_Scenario ==
    /\ nlength_ = 4
    /\ nwidth_ = 1
    /\ length_ = 4
    /\ wave_period_ = 4
    /\ wave_full_period_ = 4
    /\ old_displacement = [n \in 0..4 |-> displacement(n, 0)]
    /\ old_displacement = (0 :> 0 @@ 1 :> 200 @@ 2 :> 0 @@ 3 :> -200 @@ 4 :> 0)
    /\ elapsed = 1

(* C11 as stated: in the scenario the range holding length index 1 is
   forwarded as the vertex range [0, 11]. *)
C11_ScenarioRangeIs0To11 ==
    C11_Scenario =>
      \E i \in 1..Len(index_ranges) : InIndexRange(1, i) /\ ranges[i] = <<0, 11>>

(* C11 amended: in the scenario every length index changes (the new
   displacement is [-0.2, 0, 0.2, 0, -0.2]), the one dirty range is [0, 4],
   it holds length index 1 and is forwarded as the vertex range [0, 23]. *)
C11_ScenarioRangeIsWholeBuffer ==
    C11_Scenario =>
      /\ displacement_ = (0 :> -200 @@ 1 :> 0 @@ 2 :> 200 @@ 3 :> 0 @@ 4 :> -200)
      /\ index_ranges = << <<0, 4>> >>
      /\ InIndexRange(1, 1)
      /\ ranges = << <<0, 23>> >>

(* C11 witness: the scenario, reached by update(0) followed by update(2.5) *)
C11_Witness == C11_Scenario /\ prev_elapsed = 0 /\ Len(ranges) = 1

(* C13: for every vertex v, with vt the first vertex of its triangle, the
   four z floats of v are the stored displacements of the own length
   indices of v, vt, vt + 1 and vt + 2. *)
C13_VertexStoreConsistent ==
    \A v \in 0..(Len(vertices) - 1) :
      LET vt == 3 * (v \div 3)
      IN /\ vertices[v + 1][0 * 3 + 2 + 1] = displacement_[vertex_length_index(v)]
         /\ vertices[v + 1][1 * 3 + 2 + 1] = displacement_[vertex_length_index(vt)]
         /\ vertices[v + 1][2 * 3 + 2 + 1] = displacement_[vertex_length_index(vt + 1)]
         /\ vertices[v + 1][3 * 3 + 2 + 1] = displacement_[vertex_length_index(vt + 2)]

(* C14: the vertex ranges forwarded to update_vbo have start <= end, end at
   most nlength*nwidth*6 - 1, and each start greater than the previous
   range's end. *)
C14_VertexRangesWellFormed ==
    /\ \A i \in 1..Len(ranges) :
         /\ 0 <= ranges[i][1]
         /\ ranges[i][1] <= ranges[i][2]
         /\ ranges[i][2] <= nlength_ * nwidth_ * 6 - 1
    /\ \A i \in 1..(Len(ranges) - 1) : ranges[i + 1][1] > ranges[i][2]

(* C14 witness: several vertex ranges were forwarded, the last one ending
   with the buffer, on a grid with more than one quad per row. *)
C14_Witness ==
    /\ Len(ranges) >= 2
    /\ nwidth_ >= 2
    /\ ranges[Len(ranges)][2] = nlength_ * nwidth_ * 6 - 1
    /\ \E i \in 1..Len(ranges) : index_ranges[i][1] % 2 = 1

(* C15: every index update() uses on the vertex store is below
   nlength*nwidth*6, every index it uses on displacement_ is at most
   nlength, and ranges.back().second == n - 1 is never evaluated with
   n = 0. *)
C15_UpdateIndicesInBounds ==
    /\ \A v \in accessed.vertex :
         0 <= v /\ v < nlength_ * nwidth_ * 6 /\ v < Len(vertices)
    /\ \A n \in accessed.disp :
         0 <= n /\ n <= nlength_ /\ n \in DOMAIN displacement_
    /\ 0 \notin accessed.back_test

(* C15 witness: an update() found index 0 and later indices changed, tested
   the end of the last range, and wrote the last vertex using the last
   displacement. *)
C15_Witness ==
    /\ Called
    /\ 0 \in ChangedSet
    /\ accessed.back_test # {}
    /\ nlength_ * nwidth_ * 6 - 1 \in accessed.vertex
    /\ nlength_ \in accessed.disp
    /\ nlength_ >= 2

(* C12: wave_func(x + k * wave_full_period) = wave_func(x) for every x and
   every integer k, negative ones included, the remainder r being in
   [0, wave_full_period) before the duty cycle test. *)
C12_WaveFuncPeriodic ==
    wave_eval.done =>
      /\ wave_eval.fxk = wave_eval.fx
      /\ 0 <= wave_eval.r /\ wave_eval.r < wave_full_period_
      /\ 0 <= wave_eval.rk /\ wave_eval.rk < wave_full_period_
      /\ wave_eval.rk = wave_eval.r

(* C12 witness: a duty cycle below 1, a negative x in the flat part of the
   wave, moved to a negative argument by a negative k. *)
C12_Witness ==
    /\ wave_eval.done
    /\ wave_full_period_ > wave_period_
    /\ wave_eval.x < 0
    /\ wave_eval.k < 0
    /\ wave_eval.r > wave_period_
    /\ wave_eval.fx = 0

(* C16: a setup() that fails for want of buffer mapping reports the error,
   creates no WaveMesh and does not mark the scene running; and no call of
   setup, update, draw or teardown uses priv_->wave while it does not point
   to a live WaveMesh, a teardown() after such a failed setup() included. *)
C16_FailedSetupSafe ==
    /\ (scene_pc = "set_up" /\ setup_result.outcome = "error") =>
         /\ NumCreated = setup_result.meshes_before
         /\ ~setup_result.running_before => ~mRunning
    /\ ~wave_fault

(* C17: at most one WaveMesh is alive at any time, none is deleted twice,
   and once the scene is destroyed every WaveMesh created by setup() has
   been deleted exactly once. *)
C17_EveryMeshDestroyedOnce ==
    /\ Cardinality(LiveMeshes) <= 1
    /\ \A id \in 1..NumCreated : mesh_deletes[id] <= 1
    /\ scene_pc = "destroyed" => \A id \in 1..NumCreated : mesh_deletes[id] = 1

=============================================================================
